---- MODULE Spec2Model ----
(***************************************************************************)
(* Verification model of the contact-discovery pipeline:                   *)
(*   - the web enrichment job (web_app.py: start_enrichment,               *)
(*     run_enrichment, pause_job, resume_job, cancel_job),                 *)
(*   - the provider client (perplexity_client.py: search_contact),         *)
(*   - the batch orchestrator (perplexity_contact_finder.py:               *)
(*     ContactFinder.find_contacts with load_state / save_state),          *)
(*   - the smart enrichment job (smart_enrichment.py: execute_enrichment), *)
(*   - the enhanced search (enhanced_search.py: iterative_deep_search and  *)
(*     _search_with_tracking),                                             *)
(*   - the contact enrichment (contact_enricher.py:                        *)
(*     ContactEnricher.enrich_contacts with _save_state / _load_state).    *)
(* Each component has its own specification over the shared variable list; *)
(* the variables of the other components stay at their initial values.     *)
(***************************************************************************)
EXTENDS Integers, Sequences, FiniteSets, TLC

VARIABLES
    \* ---- web job: job_status[job_id] and the locals of run_enrichment
    job_status,       \* the job's record in the global job_status dict
    results,          \* run_enrichment's local list `results`
    total_processed,  \* run_enrichment's local counter
    company_i,        \* index of the company the for loop is at (0-based count done)
    contacts,         \* contacts returned by the provider call, not yet handled
    wpc,              \* position of the run_enrichment thread
    company_roles,    \* input: number of roles of each company (grouped queries)
    api_key,          \* input: what reading config.perplexity_api_key gives
    issued,           \* history: companies for which search_contact was called
    wend,             \* history: how run_enrichment returned
    waited            \* history: the loop has blocked in its pause wait

webVars == <<job_status, results, total_processed, company_i, contacts, wpc,
             company_roles, api_key, issued, wend, waited>>

VARIABLES
    \* ---- provider client: one PerplexityClient and its search_contact calls
    max_retries,      \* self.max_retries
    retries,          \* search_contact's local counter
    response,         \* raw_response of the call in hand
    cpc,              \* position in search_contact
    ret,              \* what the last search_contact returned
    query,            \* the query of the search_contact call in hand
    calls,            \* history: outcome of each provider call of this search
    last_event,       \* history: the client's last sleep or provider call
    n_calls,          \* history: provider calls made by this client
    n_waits,          \* history: rate_limit_delay sleeps made by this client
    searches          \* history: search_contact invocations begun

cliVars == <<max_retries, retries, response, cpc, ret, query, calls,
             last_event, n_calls, n_waits, searches>>

VARIABLES
    \* ---- batch orchestrator: one ContactFinder and its find_contacts run
    queries,            \* the list handed to find_contacts
    verify,             \* config settings verify_emails / verify_phones
    processed_queries,  \* self.processed_queries
    self_results,       \* self.results
    remaining_queries,  \* find_contacts' local list
    qi,                 \* index in remaining_queries of the query in hand
    found,              \* what search_contact returned for the query in hand
    fpc,                \* position in find_contacts
    state_file,         \* contact_finder_state.json on disk
    issued_run,         \* history: queries sent to the provider in this run
    crashed,            \* history: the process was stopped once
    resumed,            \* history: this run was started with resume=True
    raised_queries,     \* history: queries whose processing raised before the stop
    ckpt_k,             \* history: position of the last query saved before the stop
    last_merged,        \* history: the contacts handled by the latest merge
    save_outcome        \* history: how the latest save_state of the run ended

finVars == <<queries, verify, processed_queries, self_results, remaining_queries,
             qi, found, fpc, state_file, issued_run, crashed, resumed,
             raised_queries, ckpt_k, last_merged, save_outcome>>

VARIABLES
    \* ---- smart enrichment: one EnrichmentJob in execute_enrichment
    job,                \* the EnrichmentJob
    batch_size,         \* argument of execute_enrichment
    s_results,          \* local results
    batch_results,      \* local batch_results
    s_i,                \* number of queries of job.queries gone through
    s_contacts,         \* what search_contact returned for the query in hand
    spc,                \* position in execute_enrichment
    answers             \* history: what search_contact returned, per query

smartVars == <<job, batch_size, s_results, batch_results, s_i, s_contacts, spc,
               answers>>

VARIABLES
    \* ---- enhanced search: one EnhancedSearchStrategy
    client_returns,     \* what the injected client's search_contact returns
    found_contacts,     \* self.found_contacts, in insertion order
    tracked_queries,    \* self.processed_queries of the strategy
    contact,            \* local contact of _search_with_tracking
    tracking_ret,       \* what _search_with_tracking returned
    all_results,        \* local all_results of iterative_deep_search
    unique_contacts,    \* what iterative_deep_search returned
    epc,                \* position in iterative_deep_search
    offered,            \* history: the candidates the client returned
    max_iterations,     \* argument of iterative_deep_search
    stage,              \* the stage iterative_deep_search is in
    todo,               \* what is left of the query list of the stage
    sent,               \* history: the queries handed to the client
    again               \* iterative_deep_search was called once more

enhVars == <<client_returns, found_contacts, tracked_queries, contact,
             tracking_ret, all_results, unique_contacts, epc, offered,
             max_iterations, stage, todo, sent, again>>

VARIABLES
    \* ---- contact enrichment: one ContactEnricher.enrich_contacts run
    en_contacts,        \* argument contacts: for each, whether it needs a search
    en_resume,          \* argument resume
    en_results,         \* self.results
    en_state_file,      \* enrichment_state.json
    start_idx,          \* local start_idx
    idx,                \* number of contacts the loop has gone through
    en_pc,              \* position in enrich_contacts
    en_sent,            \* history: rows sent to the provider in this run
    en_ret,             \* what enrich_contacts returned
    en_crashed          \* an earlier run of the list was stopped

enrVars == <<en_contacts, en_resume, en_results, en_state_file, start_idx, idx,
             en_pc, en_sent, en_ret, en_crashed>>

vars == <<webVars, cliVars, finVars, smartVars, enhVars, enrVars>>

----------------------------------------------------------------------------
\* Bounds of the model

\* number of companies (grouped queries) of a web job
NCompanies == 2

\* largest configured value of max_retries
MaxRetriesCap == 3

\* number of search_contact invocations made on one client
NSearches == 2

\* length of the query list of a find_contacts run
NQueries == 3

----------------------------------------------------------------------------
\* Helpers

RECURSIVE SumSeq(_)
SumSeq(s) == IF s = <<>> THEN 0 ELSE Head(s) + SumSeq(Tail(s))

IsPrefix(s, t) == Len(s) <= Len(t) /\ SubSeq(t, 1, Len(s)) = s


----------------------------------------------------------------------------
\* The values a component's variables keep while another component runs

WebIdle ==
    /\ company_roles = << >> /\ api_key = "unset"
    /\ job_status = [status |-> "none"]
    /\ results = << >> /\ total_processed = 0 /\ company_i = 0
    /\ contacts = << >> /\ wpc = "off" /\ issued = << >> /\ wend = "none"
    /\ waited = FALSE

FinIdle ==
    /\ queries = << >> /\ verify = "off" /\ processed_queries = {}
    /\ self_results = << >> /\ remaining_queries = << >> /\ qi = 0
    /\ found = << >> /\ fpc = "off"
    /\ state_file = [kind |-> "absent", processed_queries |-> {}, results |-> << >>]
    /\ last_merged = << >> /\ save_outcome = "none"
    /\ issued_run = << >> /\ crashed = FALSE /\ resumed = FALSE
    /\ raised_queries = {} /\ ckpt_k = 0

SmartIdle ==
    /\ job = [status |-> "none"] /\ batch_size = 0 /\ s_results = << >>
    /\ batch_results = << >> /\ s_i = 0 /\ s_contacts = << >> /\ spc = "off"
    /\ answers = << >>

EnhIdle ==
    /\ client_returns = "none" /\ found_contacts = << >> /\ tracked_queries = {}
    /\ contact = [kind |-> "none"] /\ tracking_ret = << >> /\ all_results = << >>
    /\ unique_contacts = << >> /\ epc = "off" /\ offered = << >>
    /\ max_iterations = 0
    /\ stage = 0 /\ todo = << >> /\ sent = << >> /\ again = FALSE

EnrIdle ==
    /\ en_contacts = << >> /\ en_resume = FALSE /\ en_results = << >>
    /\ en_state_file = [kind |-> "absent", results |-> << >>]
    /\ start_idx = 0 /\ idx = 0 /\ en_pc = "off" /\ en_sent = << >>
    /\ en_ret = << >> /\ en_crashed = FALSE

CliIdle ==
    /\ max_retries = 0 /\ retries = 0 /\ response = << >> /\ cpc = "off"
    /\ ret = << >> /\ query = "none" /\ calls = << >> /\ last_event = "none"
    /\ n_calls = 0 /\ n_waits = 0 /\ searches = 0

----------------------------------------------------------------------------
\* Web enrichment job (web_app.py)

\* the variables of the other components (none of them changes in a web step)
nonWebVars == <<cliVars, finVars, smartVars, enhVars, enrVars>>

\* A contact as run_enrichment reads it: whether primary_email / primary_phone
\* are non-empty, and whether building the result dict from it raises (a name
\* that is not a string makes `' - ' in name` raise TypeError).
WebContact(e, p, r) == [email |-> e, phone |-> p, raises |-> r]

\* The results search_contact can hand to run_enrichment: the empty list
\* (nothing found, or retries exhausted) or a list of contacts.
WebBatches ==
    { << >>,
      << WebContact(TRUE, FALSE, FALSE) >>,
      << WebContact(FALSE, TRUE, FALSE), WebContact(TRUE, TRUE, FALSE) >>,
      << WebContact(FALSE, FALSE, FALSE) >>,
      << WebContact(TRUE, TRUE, FALSE), WebContact(FALSE, FALSE, TRUE) >> }

\* start_enrichment: the job record exists, with status 'running', before the
\* thread runs; the keys 'paused' and 'cancelled' are absent (read as FALSE).
WebInit ==
    /\ EnhIdle
    /\ EnrIdle
    /\ CliIdle
    /\ FinIdle
    /\ SmartIdle
    /\ company_roles \in [1..NCompanies -> {1, 2}]
    /\ api_key \in {"set", "unset", "no_attribute"}
    /\ job_status = [status |-> "running",
                     total |-> SumSeq(company_roles),
                     completed |-> 0,
                     contacts_found |-> 0,
                     emails_found |-> 0,
                     phones_found |-> 0,
                     results_is_local |-> FALSE,
                     errors |-> << >>,
                     paused |-> FALSE,
                     cancelled |-> FALSE]
    /\ results = << >>
    /\ total_processed = 0
    /\ company_i = 0
    /\ contacts = << >>
    /\ wpc = "init_paused"
    /\ issued = << >>
    /\ wend = "none"
    /\ waited = FALSE

\* job_status[job_id]['results'] as the status endpoint serialises it: the
\* list created by start_enrichment until line 2306 rebinds it to the local
\* list, and that local list (with every later append) from then on.
JobResults == IF job_status.results_is_local THEN results ELSE << >>

\* where the for loop goes after a company, or at its start
LoopHead(i) == IF i < Len(company_roles) THEN "chk_pause" ELSE "fin_status"

\* line 2182
InitPaused ==
    /\ wpc = "init_paused"
    /\ job_status' = [job_status EXCEPT !.paused = FALSE]
    /\ wpc' = "init_cancelled"
    /\ UNCHANGED <<results, total_processed, company_i, contacts,
                   company_roles, api_key, issued, wend>>
    /\ UNCHANGED waited
    /\ UNCHANGED nonWebVars

\* line 2183
InitCancelled ==
    /\ wpc = "init_cancelled"
    /\ job_status' = [job_status EXCEPT !.cancelled = FALSE]
    /\ wpc' = "config"
    /\ UNCHANGED <<results, total_processed, company_i, contacts,
                   company_roles, api_key, issued, wend>>
    /\ UNCHANGED waited
    /\ UNCHANGED nonWebVars

\* lines 2186-2207. Line 2187 reads config.perplexity_api_key: a key, no
\* key, or (with the Config class of config.py, which defines no such
\* attribute) an AttributeError that ends the thread and leaves the job
\* record as start_enrichment made it.
CheckConfig ==
    /\ wpc = "config"
    /\ CASE api_key = "set" ->
              /\ wpc' = LoopHead(0)
              /\ UNCHANGED <<job_status, wend>>
         [] api_key = "unset" ->
              /\ job_status' = [job_status EXCEPT !.status = "error"]
              /\ wpc' = "done"
              /\ wend' = "error"
         [] api_key = "no_attribute" ->
              /\ wpc' = "done"
              /\ wend' = "raised"
              /\ UNCHANGED job_status
    /\ UNCHANGED <<results, total_processed, company_i, contacts,
                   company_roles, api_key, issued>>
    /\ UNCHANGED waited
    /\ UNCHANGED nonWebVars

\* mutant of ChkPause: the boundary check does not wait on the pause flag
ChkPause_NoWait ==
    /\ wpc = "chk_pause"
    /\ wpc' = "chk_cancel"
    /\ UNCHANGED <<job_status, results, total_processed, company_i, contacts,
                   company_roles, api_key, issued, wend>>
    /\ UNCHANGED waited
    /\ UNCHANGED nonWebVars

\* line 2211: the while condition reads the pause flag
ChkPause ==
    /\ wpc = "chk_pause"
    /\ wpc' = IF job_status.paused THEN "set_paused" ELSE "chk_cancel"
    /\ UNCHANGED <<job_status, results, total_processed, company_i, contacts,
                   company_roles, api_key, issued, wend>>
    /\ UNCHANGED waited
    /\ UNCHANGED nonWebVars

\* lines 2212-2213: the body of the pause wait
SetPaused ==
    /\ wpc = "set_paused"
    /\ job_status' = [job_status EXCEPT !.status = "paused"]
    /\ wpc' = "chk_pause"
    /\ waited' = TRUE
    /\ UNCHANGED <<results, total_processed, company_i, contacts,
                   company_roles, api_key, issued, wend>>
    /\ UNCHANGED nonWebVars

\* line 2215
ChkCancel ==
    /\ wpc = "chk_cancel"
    /\ wpc' = IF job_status.cancelled THEN "set_cancelled" ELSE "update"
    /\ UNCHANGED <<job_status, results, total_processed, company_i, contacts,
                   company_roles, api_key, issued, wend>>
    /\ UNCHANGED waited
    /\ UNCHANGED nonWebVars

\* mutant of SetCancelled: cancelling resets the job's results
SetCancelled_Discard ==
    /\ wpc = "set_cancelled"
    /\ job_status' = [job_status EXCEPT !.status = "cancelled",
                                        !.results_is_local = FALSE,
                                        !.contacts_found = 0]
    /\ wpc' = "done"
    /\ wend' = "cancelled"
    /\ UNCHANGED <<results, total_processed, company_i, contacts,
                   company_roles, api_key, issued>>
    /\ UNCHANGED waited
    /\ UNCHANGED nonWebVars

\* lines 2216-2217
SetCancelled ==
    /\ wpc = "set_cancelled"
    /\ job_status' = [job_status EXCEPT !.status = "cancelled"]
    /\ wpc' = "done"
    /\ wend' = "cancelled"
    /\ UNCHANGED <<results, total_processed, company_i, contacts,
                   company_roles, api_key, issued>>
    /\ UNCHANGED waited
    /\ UNCHANGED nonWebVars

\* lines 2220-2227
UpdateStatus ==
    /\ wpc = "update"
    /\ job_status' = [job_status EXCEPT !.completed = total_processed]
    /\ wpc' = "call"
    /\ issued' = Append(issued, company_i + 1)
    /\ UNCHANGED <<results, total_processed, company_i, contacts,
                   company_roles, api_key, wend>>
    /\ UNCHANGED waited
    /\ UNCHANGED nonWebVars

\* lines 2231-2236 and 2291-2296: search_contact returns (it catches every
\* exception itself); an empty result is recorded in the job's errors
CallReturns ==
    /\ wpc = "call"
    /\ \E b \in WebBatches :
         /\ contacts' = b
         /\ IF b = << >>
              THEN /\ job_status' = [job_status EXCEPT
                         !.errors = Append(@, <<company_i + 1, "No contacts found">>)]
                   /\ wpc' = "post"
              ELSE /\ wpc' = "handle"
                   /\ UNCHANGED job_status
    /\ UNCHANGED <<results, total_processed, company_i,
                   company_roles, api_key, issued, wend>>
    /\ UNCHANGED waited
    /\ UNCHANGED nonWebVars

\* lines 2237-2285 for one contact, and the except clause of lines 2298-2303
HandleContact ==
    /\ wpc = "handle"
    /\ IF Head(contacts).raises
         THEN /\ job_status' = [job_status EXCEPT
                    !.errors = Append(@, <<company_i + 1, "exception">>)]
              /\ contacts' = << >>
              /\ wpc' = "post"
              /\ UNCHANGED results
         ELSE /\ results' = Append(results, Head(contacts))
              /\ wpc' = "inc_contacts"
              /\ UNCHANGED <<job_status, contacts>>
    /\ UNCHANGED <<total_processed, company_i, company_roles, api_key, issued, wend>>
    /\ UNCHANGED waited
    /\ UNCHANGED nonWebVars

\* line 2286
IncContacts ==
    /\ wpc = "inc_contacts"
    /\ job_status' = [job_status EXCEPT !.contacts_found = @ + 1]
    /\ wpc' = "inc_emails"
    /\ UNCHANGED <<results, total_processed, company_i, contacts,
                   company_roles, api_key, issued, wend>>
    /\ UNCHANGED waited
    /\ UNCHANGED nonWebVars

\* lines 2287-2288
IncEmails ==
    /\ wpc = "inc_emails"
    /\ job_status' = [job_status EXCEPT
           !.emails_found = IF Head(contacts).email THEN @ + 1 ELSE @]
    /\ wpc' = "inc_phones"
    /\ UNCHANGED <<results, total_processed, company_i, contacts,
                   company_roles, api_key, issued, wend>>
    /\ UNCHANGED waited
    /\ UNCHANGED nonWebVars

\* lines 2289-2290, and the step of the inner for loop
IncPhones ==
    /\ wpc = "inc_phones"
    /\ job_status' = [job_status EXCEPT
           !.phones_found = IF Head(contacts).phone THEN @ + 1 ELSE @]
    /\ contacts' = Tail(contacts)
    /\ wpc' = IF Tail(contacts) = << >> THEN "post" ELSE "handle"
    /\ UNCHANGED <<results, total_processed, company_i,
                   company_roles, api_key, issued, wend>>
    /\ UNCHANGED waited
    /\ UNCHANGED nonWebVars

\* lines 2305-2309, and the step of the outer for loop
PostCompany ==
    /\ wpc = "post"
    /\ total_processed' = total_processed + company_roles[company_i + 1]
    /\ job_status' = [job_status EXCEPT !.results_is_local = TRUE]
    /\ company_i' = company_i + 1
    /\ wpc' = LoopHead(company_i + 1)
    /\ UNCHANGED <<results, contacts, company_roles, api_key, issued, wend>>
    /\ UNCHANGED waited
    /\ UNCHANGED nonWebVars

\* line 2311
FinishStatus ==
    /\ wpc = "fin_status"
    /\ job_status' = [job_status EXCEPT !.status = "completed"]
    /\ wpc' = "fin_completed"
    /\ UNCHANGED <<results, total_processed, company_i, contacts,
                   company_roles, api_key, issued, wend>>
    /\ UNCHANGED waited
    /\ UNCHANGED nonWebVars

\* line 2312
FinishCompleted ==
    /\ wpc = "fin_completed"
    /\ job_status' = [job_status EXCEPT !.completed = SumSeq(company_roles)]
    /\ wpc' = "done"
    /\ wend' = "completed"
    /\ UNCHANGED <<results, total_processed, company_i, contacts,
                   company_roles, api_key, issued>>
    /\ UNCHANGED waited
    /\ UNCHANGED nonWebVars

\* the request handlers run on other threads, at any time the job exists

\* lines 2323-2328
pause_job ==
    /\ job_status' = [job_status EXCEPT !.paused = TRUE]
    /\ UNCHANGED <<results, total_processed, company_i, contacts, wpc,
                   company_roles, api_key, issued, wend>>
    /\ UNCHANGED waited
    /\ UNCHANGED nonWebVars

\* lines 2331-2337
resume_job ==
    /\ job_status' = [job_status EXCEPT !.paused = FALSE, !.status = "running"]
    /\ UNCHANGED <<results, total_processed, company_i, contacts, wpc,
                   company_roles, api_key, issued, wend>>
    /\ UNCHANGED waited
    /\ UNCHANGED nonWebVars

\* lines 2340-2345
cancel_job ==
    /\ job_status' = [job_status EXCEPT !.cancelled = TRUE]
    /\ UNCHANGED <<results, total_processed, company_i, contacts, wpc,
                   company_roles, api_key, issued, wend>>
    /\ UNCHANGED waited
    /\ UNCHANGED nonWebVars

\* one step of the run_enrichment thread
run_enrichment ==
    \/ InitPaused \/ InitCancelled \/ CheckConfig
    \/ ChkPause \/ SetPaused \/ ChkCancel \/ SetCancelled
    \/ UpdateStatus \/ CallReturns
    \/ HandleContact \/ IncContacts \/ IncEmails \/ IncPhones
    \/ PostCompany \/ FinishStatus \/ FinishCompleted

WebNext == run_enrichment \/ pause_job \/ resume_job \/ cancel_job

SpecWeb == WebInit /\ [][WebNext]_vars


----------------------------------------------------------------------------
\* Claims about the web job

\* C2: when run_enrichment observes the cancel flag at a company boundary the
\* status becomes 'cancelled', that step leaves the results and the found
\* counters alone, every contact appended so far is in the job's results, and
\* no step ever shortens the results or lowers a found counter.
C2_CancelKeepsResults ==
    /\ [](wend = "cancelled" =>
            /\ JobResults = results
            /\ job_status.contacts_found = Len(results))
    /\ [][(wpc = "set_cancelled" /\ wpc' = "done") =>
            /\ job_status'.status = "cancelled"
            /\ JobResults' = JobResults
            /\ job_status'.contacts_found = job_status.contacts_found
            /\ job_status'.emails_found = job_status.emails_found
            /\ job_status'.phones_found = job_status.phones_found]_vars
    /\ [][/\ IsPrefix(JobResults, JobResults')
          /\ job_status'.contacts_found >= job_status.contacts_found
          /\ job_status'.emails_found >= job_status.emails_found
          /\ job_status'.phones_found >= job_status.phones_found]_vars

\* C2 witness: the loop returned on the cancel flag with contacts recorded
C2_Witness ==
    /\ wend = "cancelled"
    /\ job_status.status = "cancelled"
    /\ company_i >= 1
    /\ Len(JobResults) >= 2

\* C3: once the status is completed, cancelled or error, no request and no
\* step of the run loop changes it.
C3_TerminalAbsorbing ==
    [][job_status.status \in {"completed", "cancelled", "error"} =>
          job_status'.status = job_status.status]_vars

\* C4: the loop reads the pause flag only at the company boundary; while it
\* observes the flag set it stays in the wait, issues no provider call and
\* does not advance completed; it leaves the wait for the next unprocessed
\* company (calls go out in list order, none skipped, none repeated); and a
\* pause request during an in-flight call leaves the call in flight.
C4_PauseCooperative ==
    /\ [][(wpc = "chk_pause" /\ job_status.paused) =>
            /\ wpc' \in {"chk_pause", "set_paused"}
            /\ issued' = issued
            /\ job_status'.completed = job_status.completed]_vars
    /\ [][wpc = "set_paused" =>
            /\ wpc' \in {"set_paused", "chk_pause"}
            /\ issued' = issued
            /\ company_i' = company_i
            /\ job_status'.completed = job_status.completed]_vars
    /\ [][issued' # issued =>
            /\ wpc = "update"
            /\ issued' = Append(issued, company_i + 1)
            /\ Len(issued) = company_i]_vars
    /\ [][wpc = "call" =>
            /\ wpc' \in {"call", "handle", "post"}
            /\ (job_status'.paused # job_status.paused =>
                  wpc' = "call" /\ contacts' = contacts /\ results' = results)]_vars

\* C4 witness: a job that blocked in the pause wait after its first company
\* and then went on to issue every company and complete
C4_Witness ==
    /\ waited
    /\ wend = "completed"
    /\ issued = [i \in 1..Len(company_roles) |-> i]


\* C18: when the Perplexity API key is missing, no job is ever observable
\* with status running and no provider call is issued for it.
C18_ConfigErrorFatal ==
    api_key = "unset" =>
        /\ job_status.status # "running"
        /\ issued = << >>

\* the contacts of the job's results that have the field set
CountWith(rs, field) == Cardinality({ i \in DOMAIN rs : rs[i][field] })

\* C20: in every state the status endpoint can read, contacts_found is the
\* number of contacts in the job's results, emails_found the number of
\* them with a primary email, phones_found the number with a primary
\* phone, and completed is at most total; completed never decreases.
C20_ConsistentSnapshot ==
    /\ [](/\ job_status.contacts_found = Len(JobResults)
          /\ job_status.emails_found = CountWith(JobResults, "email")
          /\ job_status.phones_found = CountWith(JobResults, "phone")
          /\ job_status.completed <= job_status.total)
    /\ [][job_status'.completed >= job_status.completed]_vars

----------------------------------------------------------------------------
\* Provider client (perplexity_client.py)

nonCliVars == <<webVars, finVars, smartVars, enhVars, enrVars>>

\* confidence_score is a float in the code; the model keeps hundredths
DefaultConfidence == 50

\* str.lower() on the strings of the model
Lower(s) ==
    CASE s = "Company" -> "company"
      [] s = "Jane@acme.com" -> "jane@acme.com"
      [] s = "Acme" -> "acme"
      [] OTHER -> s

\* verification_status = {}: "" stands for a key that is not there
NoVerification == [primary_email |-> "", primary_phone |-> ""]

\* ContactInfo (lines 13-27), without date_found; raw_response and
\* verification_status take their defaults
ContactInfo(n, c, pe, ae, pp, ap, src, conf, notes) ==
    [name |-> n, company |-> c, primary_email |-> pe, alternate_emails |-> ae,
     primary_phone |-> pp, alternate_phones |-> ap, sources |-> src,
     raw_response |-> "", confidence_score |-> conf,
     verification_status |-> NoVerification, notes |-> notes]

\* One element of the JSON array of a response. is_dict: the element is a
\* JSON object. A missing name or company is "" and missing emails, phones
\* or sources are << >>, which is what data.get(key, default) makes of them;
\* has_confidence tells whether the key 'confidence' is there.
Item(d, n, c, em, ph, src, hc, conf) ==
    [is_dict |-> d, name |-> n, company |-> c, emails |-> em, phones |-> ph,
     sources |-> src, has_confidence |-> hc, confidence |-> conf]

\* A raw response: json is what lines 147-156 get out of it ("array": a JSON
\* array was found and loaded, "object": a single JSON object, "invalid":
\* json.loads raised JSONDecodeError), items the loaded elements, and
\* text_emails / text_phones / text_urls what the three regexes of
\* _parse_text_response find in the raw text, in order of occurrence.
Resp(j, it, te, tp, tu) ==
    [json |-> j, items |-> it, text_emails |-> te, text_phones |-> tp, text_urls |-> tu]

\* no response: the provider call raised
NoResponse == Resp("fail", << >>, << >>, << >>, << >>)

Responses ==
    { \* two proper contacts
      Resp("array",
           << Item(TRUE, "Jane Doe", "Acme", <<"jane@acme.com", "info@acme.com">>,
                   <<"555-1234">>, <<"https://acme.com">>, TRUE, 90),
              Item(TRUE, "Bob Roe", "Roe Roofing", << >>, <<"555-9876">>, << >>, FALSE, 0) >>,
           <<"jane@acme.com", "info@acme.com">>, <<"555-1234", "555-9876">>,
           <<"https://acme.com">>),
      \* an array whose only element has a placeholder company
      Resp("array",
           << Item(TRUE, "Someone", "Company", <<"x@y.org">>, << >>, << >>, TRUE, 80) >>,
           <<"x@y.org">>, << >>, << >>),
      \* a placeholder company, then an object with an organization only
      Resp("array",
           << Item(TRUE, "Someone", "Company", <<"x@y.org">>, << >>, << >>, TRUE, 80),
              Item(TRUE, "", "Acme", << >>, << >>, << >>, FALSE, 0) >>,
           <<"x@y.org">>, << >>, << >>),
      \* an array whose elements are not objects
      Resp("array", << Item(FALSE, "", "", << >>, << >>, << >>, FALSE, 0) >>,
           << >>, << >>, << >>),
      \* a single object
      Resp("object",
           << Item(TRUE, "", "Acme", <<"Jane@acme.com">>, << >>, << >>, TRUE, 60) >>,
           <<"Jane@acme.com">>, << >>, << >>),
      \* free text with two emails
      Resp("invalid", << >>, <<"bob@roe.com", "jane@acme.com", "bob@roe.com">>,
           <<"555-9876">>, <<"https://roe.com">>),
      \* free text with nothing in it
      Resp("invalid", << >>, << >>, << >>, << >>) }

Range(s) == { s[i] : i \in DOMAIN s }

\* list(set(xs)): the distinct elements in an order the hash seeds decide
SetOrders(xs) ==
    { o \in UNION { [1..n -> Range(xs)] : n \in {Cardinality(Range(xs))} } :
        Range(o) = Range(xs) }

Rest(xs) == IF Len(xs) > 1 THEN Tail(xs) ELSE << >>
First(xs) == IF xs # << >> THEN Head(xs) ELSE ""

\* _parse_text_response (lines 266-290); emails and phones are the orders
\* list(set(...)) produced
ParseTextResponse(resp, original_query, emails, phones) ==
    ContactInfo(original_query, "", First(emails), Rest(emails),
                First(phones), Rest(phones), resp.text_urls,
                DefaultConfidence, "Parsed from text response")

\* mutant of SkipItem: an element without email, phone and name is
\* skipped as well
SkipItem_NoInfo(data) ==
    \/ data.company = ""
    \/ Lower(data.company) \in {"company", "business", "organization"}
    \/ data.emails = << >> /\ data.phones = << >> /\ data.name = ""

\* lines 164-166: the element is skipped
SkipItem(data) ==
    \/ data.company = ""
    \/ Lower(data.company) \in {"company", "business", "organization"}

\* lines 168-190; raw_response=response is kept as the mark "raw"
ItemContact(data) ==
    [ContactInfo(data.name, data.company,
                 First(data.emails), Rest(data.emails),
                 First(data.phones), Rest(data.phones),
                 data.sources,
                 IF data.has_confidence THEN data.confidence ELSE DefaultConfidence,
                 "")
        EXCEPT !.raw_response = "raw"]

RECURSIVE ItemContacts(_)
ItemContacts(items) ==
    IF items = << >> THEN << >>
    ELSE IF SkipItem(Head(items)) THEN ItemContacts(Tail(items))
    ELSE <<ItemContact(Head(items))>> \o ItemContacts(Tail(items))

\* data.get on an element that is not a dict raises AttributeError, which
\* the except clause of line 201 does not catch
ParseRaises(resp) ==
    /\ resp.json \in {"array", "object"}
    /\ \E i \in DOMAIN resp.items : ~resp.items[i].is_dict

\* _parse_response_multiple (lines 142-204) when it returns
ParseResponseMultiple(resp, original_query, emails, phones) ==
    IF resp.json \in {"array", "object"} /\ ItemContacts(resp.items) # << >>
    THEN ItemContacts(resp.items)
    ELSE << ParseTextResponse(resp, original_query, emails, phones) >>

Queries == {"q1", "q2"}

\* the client is constructed with the configured max_retries
CliInit ==
    /\ EnhIdle
    /\ EnrIdle
    /\ WebIdle
    /\ FinIdle
    /\ SmartIdle
    /\ max_retries \in 0..MaxRetriesCap
    /\ retries = 0 /\ response = NoResponse /\ cpc = "idle"
    /\ ret = << >> /\ query = "none" /\ calls = << >> /\ last_event = "none"
    /\ n_calls = 0 /\ n_waits = 0 /\ searches = 0

\* line 109: search_contact is entered
BeginSearch ==
    /\ cpc \in {"idle", "returned"}
    /\ searches < NSearches
    /\ \E q \in Queries : query' = q
    /\ retries' = 0
    /\ calls' = << >>
    /\ ret' = << >>
    /\ response' = NoResponse
    /\ searches' = searches + 1
    /\ cpc' = "while"
    /\ UNCHANGED <<max_retries, last_event, n_calls, n_waits>>
    /\ UNCHANGED nonCliVars

\* lines 110 and 140
WhileTest ==
    /\ cpc = "while"
    /\ IF retries < max_retries
         THEN cpc' = "rate_sleep" /\ UNCHANGED ret
         ELSE cpc' = "returned" /\ ret' = << >>
    /\ UNCHANGED <<max_retries, retries, response, query, calls,
                   last_event, n_calls, n_waits, searches>>
    /\ UNCHANGED nonCliVars

\* mutant of RateSleep: the delay is taken before the first call only
RateSleep_FirstOnly ==
    /\ cpc = "rate_sleep"
    /\ IF retries = 0
         THEN last_event' = "wait" /\ n_waits' = n_waits + 1
         ELSE UNCHANGED <<last_event, n_waits>>
    /\ cpc' = "call"
    /\ UNCHANGED <<max_retries, retries, response, ret, query, calls,
                   n_calls, searches>>
    /\ UNCHANGED nonCliVars

\* line 113
RateSleep ==
    /\ cpc = "rate_sleep"
    /\ last_event' = "wait"
    /\ n_waits' = n_waits + 1
    /\ cpc' = "call"
    /\ UNCHANGED <<max_retries, retries, response, ret, query, calls,
                   n_calls, searches>>
    /\ UNCHANGED nonCliVars

\* lines 116-126: the provider call raises (transport or API failure) or
\* returns a response
ProviderCall ==
    /\ cpc = "call"
    /\ last_event' = "call"
    /\ n_calls' = n_calls + 1
    /\ \/ /\ calls' = Append(calls, NoResponse)
          /\ cpc' = "except"
          /\ UNCHANGED response
       \/ \E r \in Responses :
            /\ calls' = Append(calls, r)
            /\ response' = r
            /\ cpc' = "parse"
    /\ UNCHANGED <<max_retries, retries, ret, query, n_waits, searches>>
    /\ UNCHANGED nonCliVars

\* lines 129-131
ParseAndReturn ==
    /\ cpc = "parse"
    /\ IF ParseRaises(response)
         THEN cpc' = "except" /\ UNCHANGED ret
         ELSE /\ \E eo \in SetOrders(response.text_emails),
                    po \in SetOrders(response.text_phones) :
                    ret' = ParseResponseMultiple(response, query, eo, po)
              /\ cpc' = "returned"
    /\ UNCHANGED <<max_retries, retries, response, query, calls,
                   last_event, n_calls, n_waits, searches>>
    /\ UNCHANGED nonCliVars

\* lines 133-138
ExceptRetry ==
    /\ cpc = "except"
    /\ retries' = retries + 1
    /\ IF retries + 1 >= max_retries
         THEN cpc' = "returned" /\ ret' = << >> /\ UNCHANGED last_event
         ELSE cpc' = "while" /\ last_event' = "backoff" /\ UNCHANGED ret
    /\ UNCHANGED <<max_retries, response, query, calls, n_calls, n_waits, searches>>
    /\ UNCHANGED nonCliVars

search_contact ==
    \/ BeginSearch \/ WhileTest \/ RateSleep \/ ProviderCall
    \/ ParseAndReturn \/ ExceptRetry

CliNext == search_contact

SpecClient == CliInit /\ [][CliNext]_vars


----------------------------------------------------------------------------
\* Claims about the provider client

\* the provider calls of the search in hand that returned a response
Succeeded == { i \in DOMAIN calls : calls[i] # NoResponse }

FirstSucceeded == CHOOSE i \in Succeeded : \A j \in Succeeded : i <= j

\* C5: search_contact ends after at most 1 + max_retries provider calls; when
\* every call failed it returns the empty list; when some call returned a
\* response it returns the contacts parsed from the first such response and
\* that call was the last one made.
C5_BoundedRetry ==
    cpc = "returned" =>
        /\ Len(calls) <= 1 + max_retries
        /\ (Succeeded = {} => ret = << >>)
        /\ (Succeeded # {} =>
              /\ Len(calls) = FirstSucceeded
              /\ \E eo \in SetOrders(calls[FirstSucceeded].text_emails),
                    po \in SetOrders(calls[FirstSucceeded].text_phones) :
                    ret = ParseResponseMultiple(calls[FirstSucceeded], query, eo, po))

\* C6: every provider call of a client, a retry or not, after a success or a
\* failure, comes right after a rate_limit_delay sleep, so the client has
\* always slept at least as often as it has called.
C6_RateLimit ==
    /\ [](n_waits >= n_calls)
    /\ [][n_calls' # n_calls =>
            /\ last_event = "wait"
            /\ n_calls' = n_calls + 1]_vars

\* C6 witness: a second search on the same client, in which a call is made
\* after a failed call, and calls were made in the first search as well
C6_Witness ==
    /\ searches = 2
    /\ Len(calls) >= 2
    /\ calls[1] = NoResponse
    /\ n_calls > Len(calls)
    /\ last_event = "call"

\* the response of the last provider call was parsed and search_contact
\* returned what the parser made of it
Parsed ==
    /\ cpc = "returned"
    /\ calls # << >>
    /\ calls[Len(calls)] # NoResponse
    /\ ~ParseRaises(calls[Len(calls)])

LastResponse == calls[Len(calls)]

\* C13: a raw response without valid JSON and with at least one email in
\* its text is parsed to exactly one contact; its primary_email is the
\* first email occurring in the text, its confidence 0.5, its name the
\* original query and its notes 'Parsed from text response'.
C13_FallbackCompleteness ==
    (Parsed /\ LastResponse.json = "invalid" /\ LastResponse.text_emails # << >>)
    => /\ Len(ret) = 1
       /\ ret[1].primary_email = Head(LastResponse.text_emails)
       /\ ret[1].confidence_score = DefaultConfidence
       /\ ret[1].name = query
       /\ ret[1].notes = "Parsed from text response"

\* an object of the response with a real organization
Qualifies(data) ==
    /\ data.company # ""
    /\ Lower(data.company) \notin {"company", "business", "organization"}

\* the contact c is what the claim makes of the object data
ContactOf(c, data) ==
    /\ c.name = data.name /\ c.company = data.company
    /\ <<c.primary_email>> \o c.alternate_emails =
           (IF data.emails = << >> THEN <<"">> ELSE data.emails)
    /\ <<c.primary_phone>> \o c.alternate_phones =
           (IF data.phones = << >> THEN <<"">> ELSE data.phones)
    /\ c.confidence_score =
           (IF data.has_confidence THEN data.confidence ELSE DefaultConfidence)

\* the returned list holds one contact per qualifying object, in input order
OnePerQualifying ==
    LET kept == SelectSeq(LastResponse.items, Qualifies)
    IN  /\ Len(ret) = Len(kept)
        /\ \A i \in DOMAIN kept : ContactOf(ret[i], kept[i])

Structured == Parsed /\ LastResponse.json \in {"array", "object"}

NothingUsable(resp) ==
    /\ resp # NoResponse
    /\ resp.json = "invalid" \/ SelectSeq(resp.items, Qualifies) = << >>
    /\ ~ParseRaises(resp)
    /\ resp.text_emails = << >> /\ resp.text_phones = << >> /\ resp.text_urls = << >>

\* C15: a response with neither a usable JSON contact nor an email, phone
\* or URL for the regex fallback, once parsed, gives zero contacts for
\* the query.
C15_ParseErrorZeroContacts ==
    (Parsed /\ NothingUsable(LastResponse)) => ret = << >>

\* ======================================================================
\* Batch orchestrator (perplexity_contact_finder.py, lines 186-341) with
\* the verification services it calls (email_verifier.py lines 183-240,
\* phone_verifier.py lines 190-247)
\* ======================================================================

nonFinVars == <<webVars, cliVars, smartVars, enhVars, enrVars>>

\* A confidence the provider's JSON gave as null or as a string: line 187
\* takes whatever value the key holds
NotANumber == 0 - 1

IsNumber(c) == c # NotANumber

\* LocalPhoneVerifier.verify_phone (phone_verifier.py lines 135-185) on the
\* phone strings of the model: phonenumbers accepts a number in
\* international notation and cannot parse one without a region
PhoneValid(p) == p = "+1-864-555-1234"

\* phonenumbers.format_number(parsed, INTERNATIONAL)
FormatPhone(p) == IF p = "+1-864-555-1234" THEN "+1 864-555-1234" ELSE p

RECURSIVE ValidPhones(_)
ValidPhones(ps) ==
    IF ps = << >> THEN << >>
    ELSE IF PhoneValid(Head(ps)) THEN <<FormatPhone(Head(ps))>> \o ValidPhones(Tail(ps))
    ELSE ValidPhones(Tail(ps))

\* EmailVerificationService.verify_all_emails (lines 219-240) of a service
\* without a Hunter or ZeroBounce key: verify_email answers 'unverified'
\* and no score, so no alternate email is kept
VerifyAllEmails(c, v) ==
    IF v = "off" THEN c
    ELSE [c EXCEPT !.verification_status.primary_email =
                       IF c.primary_email # "" THEN "unverified" ELSE @,
                   !.alternate_emails = << >>]

\* PhoneVerificationService.verify_all_phones (lines 225-247); the local
\* verifier is always there
VerifyAllPhones(c, v) ==
    IF v = "off" THEN c
    ELSE [c EXCEPT !.verification_status.primary_phone =
                       IF c.primary_phone = "" THEN @
                       ELSE IF PhoneValid(c.primary_phone) THEN "valid" ELSE "invalid",
                   !.primary_phone =
                       IF PhoneValid(c.primary_phone) THEN FormatPhone(@) ELSE @,
                   !.alternate_phones = ValidPhones(@)]

\* find_contacts lines 287-296 for the contacts of one query: verify,
\* append to self.results, log. The log line formats confidence_score with
\* :.2f, which raises when it is not a number; the contact is in
\* self.results by then and the rest of the list is not reached.
RECURSIVE HandleContacts(_, _, _)
HandleContacts(res, cs, v) ==
    IF cs = << >> THEN [results |-> res, raised |-> FALSE]
    ELSE LET c == VerifyAllPhones(VerifyAllEmails(Head(cs), v), v)
         IN  IF IsNumber(c.confidence_score)
             THEN HandleContacts(Append(res, c), Tail(cs), v)
             ELSE [results |-> Append(res, c), raised |-> TRUE]

\* what search_contact may hand to find_contacts for a query; the empty
\* list is what it returns when its attempts are used up (lines 133-140 of
\* perplexity_client.py), and only then: a response that was parsed always
\* gives at least the contact of _parse_text_response
JaneItem ==
    Item(TRUE, "Jane Doe", "Acme", <<"jane@acme.com", "info@acme.com">>,
         <<"+1-864-555-1234">>, <<"https://acme.com">>, TRUE, 90)

BobItem ==
    Item(TRUE, "Bob Roe", "Roe Roofing", << >>, <<"555-9876">>, << >>, FALSE, 0)

NullConfidenceItem ==
    Item(TRUE, "Ann Poe", "Poe Plumbing", <<"ann@poe.com">>, << >>, << >>,
         TRUE, NotANumber)

FinderBatches ==
    { << >>,
      ItemContacts(<<JaneItem>>),
      ItemContacts(<<BobItem, NullConfidenceItem, JaneItem>>) }

\* the query list: NQueries distinct texts, or a list whose last entry
\* repeats the first; a query text is written as a number
QueryLists ==
    { [i \in 1..NQueries |-> i],
      [i \in 1..NQueries |-> IF i = NQueries THEN 1 ELSE i] }

RECURSIVE Unprocessed(_, _)
\* line 265
Unprocessed(qs, done) ==
    IF qs = << >> THEN << >>
    ELSE IF Head(qs) \in done THEN Unprocessed(Tail(qs), done)
    ELSE <<Head(qs)>> \o Unprocessed(Tail(qs), done)

\* save_state lines 236-251 followed by ContactInfo(**contact_data) of
\* line 223: raw_response is not among the saved keys
SavedContact(c) == [c EXCEPT !.raw_response = ""]

SavedContacts(cs) == [i \in DOMAIN cs |-> SavedContact(cs[i])]

\* mutant of Snapshot: the contacts of the query just processed are not
\* in the file yet
Snapshot_Behind(done, res) ==
    [kind |-> "ok", processed_queries |-> done,
     results |-> SavedContacts(SubSeq(res, 1, Len(res) - Len(last_merged)))]

\* the state file after a save that ran to its end
Snapshot(done, res) ==
    [kind |-> "ok", processed_queries |-> done, results |-> SavedContacts(res)]

\* the state file after open(..., 'w') truncated it and the dump did not end
PartialFile == [kind |-> "partial", processed_queries |-> {}, results |-> << >>]

NoFile == [kind |-> "absent", processed_queries |-> {}, results |-> << >>]

\* the process starts on a fresh ContactFinder (lines 189-212); the state
\* file is not there
FinInit ==
    /\ EnhIdle
    /\ EnrIdle
    /\ WebIdle
    /\ CliIdle
    /\ SmartIdle
    /\ queries \in QueryLists
    /\ verify \in {"off", "on"}
    /\ processed_queries = {} /\ self_results = << >>
    /\ remaining_queries = << >> /\ qi = 0 /\ found = << >>
    /\ fpc = "start" /\ state_file = NoFile
    /\ issued_run = << >> /\ crashed = FALSE /\ resumed = FALSE
    /\ raised_queries = {} /\ ckpt_k = 0 /\ last_merged = << >>
    /\ save_outcome = "none"

\* load_state (lines 214-229): a file that is there and parses replaces
\* processed_queries and is appended to self.results; json.load raises on
\* a truncated file and the except clause leaves the instance as it was
LoadState(file, done, res) ==
    IF file.kind = "ok"
    THEN [processed_queries |-> file.processed_queries, results |-> res \o file.results]
    ELSE [processed_queries |-> done, results |-> res]

\* lines 260-271
FindContactsStart ==
    /\ fpc = "start"
    /\ LET loaded == IF resumed
                     THEN LoadState(state_file, processed_queries, self_results)
                     ELSE [processed_queries |-> processed_queries,
                           results |-> self_results]
           rem == Unprocessed(queries, loaded.processed_queries)
       IN  /\ processed_queries' = loaded.processed_queries
           /\ self_results' = loaded.results
           /\ remaining_queries' = rem
           /\ qi' = IF rem = << >> THEN 0 ELSE 1
           /\ fpc' = IF rem = << >> THEN "done" ELSE "search"
    /\ UNCHANGED <<queries, verify, found, state_file, issued_run, crashed,
                   resumed, raised_queries, ckpt_k, last_merged>>
    /\ UNCHANGED save_outcome
    /\ UNCHANGED nonFinVars

\* the for loops of lines 275-279 move to the next query or end
NextQueryPc == IF qi < Len(remaining_queries) THEN "search" ELSE "done"
NextQueryIndex == IF qi < Len(remaining_queries) THEN qi + 1 ELSE qi

\* line 283: search_contact returns a list, never raises
SearchQuery ==
    /\ fpc = "search"
    /\ \E b \in FinderBatches : found' = b
    /\ issued_run' = Append(issued_run, remaining_queries[qi])
    /\ fpc' = "handle"
    /\ UNCHANGED <<queries, verify, processed_queries, self_results,
                   remaining_queries, qi, state_file, crashed, resumed,
                   raised_queries, ckpt_k, last_merged>>
    /\ UNCHANGED save_outcome
    /\ UNCHANGED nonFinVars

\* lines 285-301 and, when the handling raised, lines 306-308
HandleResults ==
    /\ fpc = "handle"
    /\ LET h == HandleContacts(self_results, found, verify)
       IN  /\ self_results' = h.results
           /\ IF h.raised
              THEN /\ fpc' = NextQueryPc
                   /\ qi' = NextQueryIndex
                   /\ raised_queries' = IF crashed THEN raised_queries
                                        ELSE raised_queries \cup {qi}
                   /\ UNCHANGED processed_queries
              ELSE /\ fpc' = "save"
                   /\ processed_queries' = processed_queries \cup {remaining_queries[qi]}
                   /\ UNCHANGED <<qi, raised_queries>>
    /\ last_merged' = found
    /\ found' = << >>
    /\ UNCHANGED <<queries, verify, remaining_queries, state_file, issued_run,
                   crashed, resumed, ckpt_k>>
    /\ UNCHANGED save_outcome
    /\ UNCHANGED nonFinVars

\* line 304, save_state (lines 231-256): the file is opened for writing,
\* which empties it, and the dump follows; an exception of either is logged
\* and the run goes on
SaveState ==
    /\ fpc = "save"
    /\ \E outcome \in {"ok", "open_fails", "dump_fails"} :
          /\ state_file' = CASE outcome = "ok" -> Snapshot(processed_queries, self_results)
                              [] outcome = "open_fails" -> state_file
                              [] outcome = "dump_fails" -> PartialFile
          /\ ckpt_k' = IF outcome = "ok" /\ ~crashed THEN qi ELSE ckpt_k
          /\ save_outcome' = outcome
    /\ fpc' = NextQueryPc
    /\ qi' = NextQueryIndex
    /\ UNCHANGED <<queries, verify, processed_queries, self_results,
                   remaining_queries, found, issued_run, crashed, resumed,
                   raised_queries, last_merged>>
    /\ UNCHANGED nonFinVars

\* the process is stopped between two file operations
Crash ==
    /\ fpc \in {"search", "handle", "save"}
    /\ ~crashed
    /\ crashed' = TRUE
    /\ fpc' = "stopped"
    /\ UNCHANGED <<queries, verify, processed_queries, self_results,
                   remaining_queries, qi, found, state_file, issued_run, resumed,
                   raised_queries, ckpt_k, last_merged>>
    /\ UNCHANGED save_outcome
    /\ UNCHANGED nonFinVars

\* the process is stopped inside save_state, after line 253 opened the
\* file and before the dump of line 254 reached the disk
CrashInSave ==
    /\ fpc = "save"
    /\ ~crashed
    /\ crashed' = TRUE
    /\ fpc' = "stopped"
    /\ state_file' = PartialFile
    /\ UNCHANGED <<queries, verify, processed_queries, self_results,
                   remaining_queries, qi, found, issued_run, resumed,
                   raised_queries, ckpt_k, last_merged>>
    /\ UNCHANGED save_outcome
    /\ UNCHANGED nonFinVars

\* a new process: main() builds a fresh ContactFinder and calls
\* find_contacts(queries, resume=args.resume) with the same list
Restart ==
    /\ fpc = "stopped"
    /\ \E r \in BOOLEAN : resumed' = r
    /\ processed_queries' = {} /\ self_results' = << >>
    /\ remaining_queries' = << >> /\ qi' = 0 /\ found' = << >>
    /\ issued_run' = << >> /\ last_merged' = << >>
    /\ fpc' = "start"
    /\ save_outcome' = "none"
    /\ UNCHANGED <<queries, verify, state_file, crashed, raised_queries, ckpt_k>>
    /\ UNCHANGED nonFinVars

find_contacts == FindContactsStart \/ SearchQuery \/ HandleResults \/ SaveState

FinNext == find_contacts \/ Crash \/ CrashInSave \/ Restart

SpecFinder == FinInit /\ [][FinNext]_vars

\* ----------------------------------------------------------------------
\* Claims about the batch orchestrator
\* ----------------------------------------------------------------------

\* C1: a run over NQueries distinct queries was stopped after query ckpt_k
\* had been processed and checkpointed; the run that resumes on a fresh
\* instance with the same list sends to the provider exactly the queries
\* ckpt_k+1..NQueries, in list order, and none of 1..ckpt_k.
C1_Resumability ==
    ( /\ fpc = "done" /\ crashed /\ resumed
      /\ queries = [i \in 1..NQueries |-> i]
      /\ ckpt_k >= 1 )
    => issued_run = [i \in 1..(NQueries - ckpt_k) |-> ckpt_k + i]

\* the fields of a contact that the data model of the checkpoint names
CheckpointFields ==
    {"name", "company", "primary_email", "alternate_emails", "primary_phone",
     "alternate_phones", "sources", "confidence_score", "verification_status",
     "notes"}

\* the contacts on disk are the contacts in memory, field by field
SameContacts(disk, mem) ==
    /\ Len(disk) = Len(mem)
    /\ \A i \in DOMAIN mem : \A f \in CheckpointFields : disk[i][f] = mem[i][f]

C17_CrashSafeCheckpoint ==
    /\ state_file.kind \in {"absent", "ok"}
    /\ (resumed /\ crashed /\ ckpt_k >= 1) => queries[ckpt_k] \notin Range(issued_run)

\* C8: merging the batch that the preceding merge has just merged leaves
\* the result list as it is: no contact is inserted a second time.
C8_IdempotentMerge ==
    [][(fpc = "handle" /\ fpc' # "stopped" /\ found = last_merged)
          => self_results' = self_results]_vars

\* ======================================================================
\* Smart enrichment job (smart_enrichment.py, lines 28-42 and 417-497)
\* ======================================================================

nonSmartVars == <<webVars, cliVars, finVars, enhVars, enrVars>>

\* default of the batch_size parameter (line 417)
DefaultBatchSize == 10

\* a contact that _parse_text_response made of a free-text answer
TextContact ==
    ParseTextResponse(Resp("invalid", << >>, <<"bob@roe.com">>, << >>, << >>),
                      "IT director Roe Roofing", <<"bob@roe.com">>, << >>)

\* what search_contact may hand to execute_enrichment for a query; the
\* empty list is the exhausted search
SmartBatches == FinderBatches \cup { <<TextContact>> }

\* lines 462-466: notes is overwritten and an empty company is filled in
Annotate(c) ==
    [c EXCEPT !.notes = "Role: role | Query: query",
              !.company = IF @ = "" THEN "query_suggestion.company" ELSE @]

AnnotateAll(cs) == [i \in DOMAIN cs |-> Annotate(cs[i])]

\* an EnrichmentJob (lines 28-42) over NQueries query suggestions, as
\* generate_queries leaves it
SmartInit ==
    /\ EnhIdle
    /\ EnrIdle
    /\ WebIdle
    /\ CliIdle
    /\ FinIdle
    /\ job = [status |-> "pending", total_queries |-> NQueries,
              completed_queries |-> 0, success_count |-> 0, error_count |-> 0,
              results |-> << >>]
    /\ batch_size \in {2, DefaultBatchSize}
    /\ s_results = << >> /\ batch_results = << >> /\ s_i = 0
    /\ s_contacts = << >> /\ spc = "start" /\ answers = << >>

\* lines 423-424
ExecStart ==
    /\ spc = "start"
    /\ job' = [job EXCEPT !.status = "running"]
    /\ s_results' = << >>
    /\ spc' = "batch"
    /\ UNCHANGED <<batch_size, batch_results, s_i, s_contacts, answers>>
    /\ UNCHANGED nonSmartVars

\* lines 442-444: the next batch, when queries are left
BatchStart ==
    /\ spc = "batch"
    /\ s_i < NQueries
    /\ batch_results' = << >>
    /\ spc' = "search"
    /\ UNCHANGED <<job, batch_size, s_results, s_i, s_contacts, answers>>
    /\ UNCHANGED nonSmartVars

\* lines 455-458: search_contact returns a list and never raises
SmartSearch ==
    /\ spc = "search"
    /\ \E b \in SmartBatches :
          /\ s_contacts' = b
          /\ answers' = Append(answers, b)
    /\ spc' = "handle"
    /\ UNCHANGED <<job, batch_size, s_results, batch_results, s_i>>
    /\ UNCHANGED nonSmartVars

\* lines 460-471 and the loop step of line 446
SmartHandle ==
    /\ spc = "handle"
    /\ IF s_contacts # << >>
       THEN /\ batch_results' = batch_results \o AnnotateAll(s_contacts)
            /\ job' = [job EXCEPT !.success_count = @ + Len(s_contacts),
                                  !.completed_queries = @ + 1]
       ELSE /\ job' = [job EXCEPT !.completed_queries = @ + 1]
            /\ UNCHANGED batch_results
    /\ s_i' = s_i + 1
    /\ s_contacts' = << >>
    /\ spc' = IF s_i + 1 = NQueries \/ (s_i + 1) % batch_size = 0
              THEN "batch_end" ELSE "search"
    /\ UNCHANGED <<batch_size, s_results, answers>>
    /\ UNCHANGED nonSmartVars

\* line 481
BatchEnd ==
    /\ spc = "batch_end"
    /\ s_results' = s_results \o batch_results
    /\ spc' = "batch"
    /\ UNCHANGED <<job, batch_size, batch_results, s_i, s_contacts, answers>>
    /\ UNCHANGED nonSmartVars

\* lines 489-491
ExecFinish ==
    /\ spc = "batch"
    /\ s_i >= NQueries
    /\ job' = [job EXCEPT !.results = s_results, !.status = "completed"]
    /\ spc' = "done"
    /\ UNCHANGED <<batch_size, s_results, batch_results, s_i, s_contacts, answers>>
    /\ UNCHANGED nonSmartVars

execute_enrichment ==
    ExecStart \/ BatchStart \/ SmartSearch \/ SmartHandle \/ BatchEnd \/ ExecFinish

SmartNext == execute_enrichment

SpecSmart == SmartInit /\ [][SmartNext]_vars

\* ----------------------------------------------------------------------
\* Claims about the smart enrichment job
\* ----------------------------------------------------------------------

\* the queries whose search used up its attempts
FailedQueries == { i \in DOMAIN answers : answers[i] = << >> }

RECURSIVE Concat(_)
Concat(ss) == IF ss = << >> THEN << >> ELSE Head(ss) \o Concat(Tail(ss))

\* C7: when the search of a query fails, the failure is counted in the
\* job's error counter, every later query is still processed, and the job
\* ends completed with the contacts of the other queries in its results.
C7_FailureIsolation ==
    spc = "done" =>
        /\ job.status = "completed"
        /\ Len(answers) = NQueries
        /\ job.completed_queries = NQueries
        /\ job.error_count = Cardinality(FailedQueries)
        /\ job.results = Concat([i \in DOMAIN answers |-> AnnotateAll(answers[i])])

\* ======================================================================
\* Enhanced search (enhanced_search.py, lines 133-213)
\* ======================================================================

nonEnhVars == <<webVars, cliVars, finVars, smartVars, enrVars>>

\* number of entries of it_titles (lines 55-70); a title is written as a
\* number
NTitles == 3

\* patterns (lines 73-84): some hold {title}, some only {location}
Patterns == <<"titled", "untitled">>

\* pattern.format(title=title, location=location), line 89; a query text is
\* written as a number, and a pattern without {title} gives the same text
\* for every title
Format(pattern, title) == IF pattern = "titled" THEN title ELSE NTitles + 1

\* a text of search_by_regions (lines 112-131) and the text of line 177 for
\* a district
RegionalText == NTitles + 2
DistrictText == NTitles + 3

\* seq[:n]
Take(seq, n) == SubSeq(seq, 1, IF Len(seq) < n THEN Len(seq) ELSE n)

\* generate_expanded_queries (lines 86-91): every title with every pattern,
\* titles outermost, without the texts that are in processed_queries. The
\* block of lines 93-108 appends to the end of the list.
GenerateExpandedQueries(processed) ==
    LET n == Len(Patterns)
        every == [k \in 1..(NTitles * n) |->
                     Format(Patterns[((k - 1) % n) + 1], ((k - 1) \div n) + 1)]
    IN  SelectSeq(every, LAMBDA q : q \notin processed)

\* line 147: the slice is as long as the pattern list
BroadQueries(processed) == Take(GenerateExpandedQueries(processed), Len(Patterns))

\* line 157
RegionalQueries == <<RegionalText>>

\* extract_entities_from_results (lines 30-36) on the companies of the model
IsDistrict(company) == company = "Pitt County District"

\* lines 171-177: one query for each district found in all_results
DistrictQueries(rs) ==
    IF \E i \in DOMAIN rs : IsDistrict(rs[i].company)
    THEN <<DistrictText>> ELSE << >>

\* A value returned by the client's search_contact. PerplexityClient
\* returns a list of ContactInfo (perplexity_client.py line 43); lines
\* 198-208 treat the value as one ContactInfo or None, the contract of a
\* client that answers with a single contact (as _parse_response, lines
\* 206-264 of perplexity_client.py, does).
NoContact == ContactInfo("", "", "", << >>, "", << >>, << >>, 0, "")
ReturnedList(cs) == [kind |-> "list", list |-> cs, one |-> NoContact]
ReturnedOne(c) == [kind |-> "single", list |-> << >>, one |-> c]
ReturnedNone == [kind |-> "None", list |-> << >>, one |-> NoContact]

\* single candidates: name, company, primary email, sources, confidence
Candidate(n, c, pe, src, conf) ==
    ContactInfo(n, c, pe, << >>, "", << >>, src, conf, "")

Candidates ==
    { Candidate("Jane Doe", "Acme", "jane@acme.com", <<"https://acme.com">>, 60),
      Candidate("Jane Doe", "Acme", "jane@acme.com",
                <<"https://acme.com", "https://bbb.org/acme">>, 90),
      Candidate("Jane Doe", "Acme", "Jane@acme.com", <<"https://acme.com">>, 60),
      Candidate("Jane Doe", "Acme", "j.doe@acme.com", << >>, 60),
      Candidate("Bob Roe", "Roe Roofing", "", <<"https://roe.com">>, 50),
      Candidate("", "", "", <<"https://roe.com">>, 50),
      Candidate("Dee Low", "Pitt County District", "dee@pitt.org", << >>, 70) }

ClientReturns(kind) ==
    IF kind = "list" THEN { ReturnedList(b) : b \in SmartBatches }
    ELSE { ReturnedNone } \cup { ReturnedOne(c) : c \in Candidates }

\* truth value of the returned object in "if contact:" (line 198)
Truthy(r) ==
    CASE r.kind = "list" -> r.list # << >>
      [] r.kind = "single" -> TRUE
      [] OTHER -> FALSE

\* keys of the dict
Keys(fc) == { fc[i].key : i \in DOMAIN fc }

\* list(self.found_contacts.values())
Values(fc) == [i \in DOMAIN fc |-> fc[i].contact]

\* line 205
NameKey(c) == c.name \o "_" \o c.company

\* mutant of Track: a contact whose key is in the dict replaces the entry
Track_Overwrite(fc, c) ==
    LET k == IF c.primary_email # "" THEN c.primary_email ELSE NameKey(c)
    IN  IF c.primary_email = "" /\ c.name = "" THEN fc
        ELSE IF k \in Keys(fc)
        THEN [i \in DOMAIN fc |->
                 IF fc[i].key = k THEN [key |-> k, contact |-> c] ELSE fc[i]]
        ELSE Append(fc, [key |-> k, contact |-> c])

\* lines 200-208 on one ContactInfo: the dict after them
Track(fc, c) ==
    IF c.primary_email # "" /\ c.primary_email \notin Keys(fc)
    THEN Append(fc, [key |-> c.primary_email, contact |-> c])
    ELSE IF c.primary_email = "" /\ c.name # "" /\ NameKey(c) \notin Keys(fc)
    THEN Append(fc, [key |-> NameKey(c), contact |-> c])
    ELSE fc

\* default of the max_iterations parameter (line 133)
DefaultMaxIterations == 5

\* a strategy as __init__ (lines 15-18) leaves it, around the client of
\* this repository or a client that answers with one contact
EnhInit ==
    /\ WebIdle
    /\ CliIdle
    /\ FinIdle
    /\ SmartIdle
    /\ EnrIdle
    /\ client_returns \in {"list", "single"}
    /\ found_contacts = << >> /\ tracked_queries = {}
    /\ contact = ReturnedNone /\ tracking_ret = << >> /\ all_results = << >>
    /\ unique_contacts = << >> /\ epc = "loop" /\ offered = << >>
    /\ max_iterations \in {1, DefaultMaxIterations}
    /\ stage = 1 /\ todo = BroadQueries({}) /\ sent = << >> /\ again = FALSE

\* mutant of TrackSearch: the query is sent without the test of line 150
TrackSearch_Unguarded ==
    /\ epc = "loop"
    /\ todo # << >>
    /\ tracked_queries' = tracked_queries \cup {Head(todo)}
    /\ sent' = Append(sent, Head(todo))
    /\ todo' = Tail(todo)
    /\ \E r \in ClientReturns(client_returns) :
          /\ contact' = r
          /\ offered' = Append(offered, r)
    /\ epc' = "returned"
    /\ UNCHANGED <<client_returns, found_contacts, tracking_ret, all_results,
                   unique_contacts>>
    /\ UNCHANGED <<max_iterations, stage, again>>
    /\ UNCHANGED nonEnhVars

\* lines 149-152 (159-162, 176-179) with lines 192-196: the next query of
\* the stage, when it is not in processed_queries, is recorded there and
\* sent to the client
TrackSearch ==
    /\ epc = "loop"
    /\ todo # << >>
    /\ Head(todo) \notin tracked_queries
    /\ tracked_queries' = tracked_queries \cup {Head(todo)}
    /\ sent' = Append(sent, Head(todo))
    /\ todo' = Tail(todo)
    /\ \E r \in ClientReturns(client_returns) :
          /\ contact' = r
          /\ offered' = Append(offered, r)
    /\ epc' = "returned"
    /\ UNCHANGED <<client_returns, found_contacts, tracking_ret, all_results,
                   unique_contacts>>
    /\ UNCHANGED <<max_iterations, stage, again>>
    /\ UNCHANGED nonEnhVars

\* lines 150, 160, 177 false: the query is in processed_queries
SkipProcessed ==
    /\ epc = "loop"
    /\ todo # << >>
    /\ Head(todo) \in tracked_queries
    /\ todo' = Tail(todo)
    /\ UNCHANGED <<client_returns, found_contacts, tracked_queries, contact,
                   tracking_ret, all_results, unique_contacts, epc, offered>>
    /\ UNCHANGED <<max_iterations, stage, sent, again>>
    /\ UNCHANGED nonEnhVars

\* lines 157 and 169-174: the list of the next stage
NextStage ==
    /\ epc = "loop"
    /\ todo = << >>
    /\ stage < 3
    /\ stage' = stage + 1
    /\ todo' = IF stage = 1 THEN RegionalQueries
               ELSE IF all_results # << >> THEN DistrictQueries(all_results)
               ELSE << >>
    /\ UNCHANGED <<client_returns, found_contacts, tracked_queries, contact,
                   tracking_ret, all_results, unique_contacts, epc, offered>>
    /\ UNCHANGED <<max_iterations, sent, again>>
    /\ UNCHANGED nonEnhVars

\* line 198 false, or lines 200-208 fall through: line 213
TrackNothing ==
    /\ epc = "returned"
    /\ \/ ~Truthy(contact)
       \/ /\ contact.kind = "single"
          /\ Track(found_contacts, contact.one) = found_contacts
    /\ tracking_ret' = << >>
    /\ epc' = "extend"
    /\ UNCHANGED <<client_returns, found_contacts, tracked_queries, contact,
                   all_results, unique_contacts, offered>>
    /\ UNCHANGED <<max_iterations, stage, todo, sent, again>>
    /\ UNCHANGED nonEnhVars

\* line 200 on a list: a list has no primary_email, AttributeError, caught
\* by line 210; line 213
TrackRaises ==
    /\ epc = "returned"
    /\ Truthy(contact)
    /\ contact.kind = "list"
    /\ tracking_ret' = << >>
    /\ epc' = "extend"
    /\ UNCHANGED <<client_returns, found_contacts, tracked_queries, contact,
                   all_results, unique_contacts, offered>>
    /\ UNCHANGED <<max_iterations, stage, todo, sent, again>>
    /\ UNCHANGED nonEnhVars

\* lines 200-202 and 203-208: the contact gets its key
TrackInsert ==
    /\ epc = "returned"
    /\ contact.kind = "single"
    /\ Track(found_contacts, contact.one) # found_contacts
    /\ found_contacts' = Track(found_contacts, contact.one)
    /\ tracking_ret' = <<contact.one>>
    /\ epc' = "extend"
    /\ UNCHANGED <<client_returns, tracked_queries, contact, all_results,
                   unique_contacts, offered>>
    /\ UNCHANGED <<max_iterations, stage, todo, sent, again>>
    /\ UNCHANGED nonEnhVars

\* lines 153-154
ExtendResults ==
    /\ epc = "extend"
    /\ all_results' = all_results \o tracking_ret
    /\ epc' = "loop"
    /\ UNCHANGED <<client_returns, found_contacts, tracked_queries, contact,
                   tracking_ret, unique_contacts, offered>>
    /\ UNCHANGED <<max_iterations, stage, todo, sent, again>>
    /\ UNCHANGED nonEnhVars

\* line 188
ReturnUnique ==
    /\ epc = "loop"
    /\ todo = << >>
    /\ stage = 3
    /\ unique_contacts' = Values(found_contacts)
    /\ epc' = "done"
    /\ UNCHANGED <<client_returns, found_contacts, tracked_queries, contact,
                   tracking_ret, all_results, offered>>
    /\ UNCHANGED <<max_iterations, stage, todo, sent, again>>
    /\ UNCHANGED nonEnhVars

\* iterative_deep_search is called again on the same strategy: lines
\* 135-147
SearchAgain ==
    /\ epc = "done"
    /\ ~again
    /\ again' = TRUE
    /\ all_results' = << >>
    /\ stage' = 1
    /\ todo' = BroadQueries(tracked_queries)
    /\ epc' = "loop"
    /\ UNCHANGED <<client_returns, found_contacts, tracked_queries, contact,
                   tracking_ret, unique_contacts, offered>>
    /\ UNCHANGED <<max_iterations, sent>>
    /\ UNCHANGED nonEnhVars

search_with_tracking == TrackSearch \/ TrackNothing \/ TrackRaises \/ TrackInsert

iterative_deep_search ==
    \/ search_with_tracking \/ SkipProcessed \/ NextStage
    \/ ExtendResults \/ ReturnUnique

EnhNext == iterative_deep_search \/ SearchAgain

SpecEnh == EnhInit /\ [][EnhNext]_vars

\* ----------------------------------------------------------------------
\* Claims about the enhanced search
\* ----------------------------------------------------------------------

\* every contact the client returned, in order of arrival
RECURSIVE OfferedContacts(_)
OfferedContacts(rs) ==
    IF rs = << >> THEN << >>
    ELSE (CASE Head(rs).kind = "list" -> Head(rs).list
            [] Head(rs).kind = "single" -> <<Head(rs).one>>
            [] OTHER -> << >>) \o OfferedContacts(Tail(rs))

\* the returned contacts whose primary email is e up to letter case
WithEmail(cs, e) ==
    { i \in DOMAIN cs : Lower(cs[i].primary_email) = Lower(e) }

\* C9: of all candidates with a non-empty primary email that is the same
\* up to letter case, exactly one contact is in the returned set, and
\* candidates whose emails differ each have a contact of their own, also
\* when name and organization are equal.
C9_IdentityByEmail ==
    epc = "done" =>
        \A i \in DOMAIN OfferedContacts(offered) :
            LET c == OfferedContacts(offered)[i]
            IN  c.primary_email # "" =>
                    Cardinality(WithEmail(unique_contacts, c.primary_email)) = 1

\* s without the elements that occurred earlier in it
RECURSIVE Dedup(_)
Dedup(s) ==
    IF s = << >> THEN << >>
    ELSE LET d == Dedup(SubSeq(s, 1, Len(s) - 1))
         IN  IF s[Len(s)] \in Range(d) THEN d ELSE Append(d, s[Len(s)])

Max(S) == CHOOSE x \in S : \A y \in S : y <= x

\* c is filed under the key k of the dict (lines 200 and 203-205)
HasKey(c, k) ==
    \/ c.primary_email # "" /\ c.primary_email = k
    \/ c.primary_email = "" /\ c.name # "" /\ NameKey(c) = k

\* the returned contacts with the key k, in order of arrival
SharingKey(cs, k) == LET Same(c) == HasKey(c, k) IN SelectSeq(cs, Same)

\* C10: once the candidates of a query are dealt with, each candidate that
\* has an identity key is represented by the contact kept under that key;
\* that contact has the highest confidence of the candidates that arrived
\* with the key, whichever arrived first, and its sources are the sources
\* of these candidates in order of arrival, each URL once.
C10_MergeKeepsBest ==
    epc \in {"loop", "done"} =>
        LET cs == OfferedContacts(offered)
        IN  \A i \in DOMAIN cs :
                (cs[i].primary_email # "" \/ cs[i].name # "") =>
                    \E k \in DOMAIN found_contacts :
                        LET kept == found_contacts[k]
                            same == SharingKey(cs, kept.key)
                        IN  /\ HasKey(cs[i], kept.key)
                            /\ kept.contact.confidence_score =
                                   Max({ same[j].confidence_score : j \in DOMAIN same })
                            /\ kept.contact.sources =
                                   Dedup(Concat([j \in DOMAIN same |-> same[j].sources]))

\* C11: over any sequence of merges every key that was in the set stays in
\* it, the confidence kept for a key never decreases, and no source kept
\* for a key is removed.
C11_MonotoneSet ==
    [][\A i \in DOMAIN found_contacts :
          /\ i \in DOMAIN found_contacts'
          /\ found_contacts'[i].key = found_contacts[i].key
          /\ found_contacts'[i].contact.confidence_score
                 >= found_contacts[i].contact.confidence_score
          /\ Range(found_contacts[i].contact.sources)
                 \subseteq Range(found_contacts'[i].contact.sources)]_vars

\* C11 witness: a contact is kept, and a candidate with the same key, a
\* lower confidence and fewer sources has been dealt with after it
C11_Witness ==
    /\ epc = "extend"
    /\ Len(found_contacts) = 1
    /\ Len(offered) = 2
    /\ offered[1].kind = "single" /\ offered[2].kind = "single"
    /\ HasKey(offered[2].one, found_contacts[1].key)
    /\ offered[1].one.confidence_score > offered[2].one.confidence_score
    /\ found_contacts[1].contact = offered[1].one

\* C12: every contact a provider call returned is in the returned unique
\* set, or a contact with its identity key is; a contact with neither an
\* email nor a name has no key and is itself in the set. So the set is not
\* empty when a call returned contacts.
C12_NoCandidateLost ==
    epc = "done" =>
        /\ \A i \in DOMAIN OfferedContacts(offered) :
              LET c == OfferedContacts(offered)[i]
              IN  \/ c \in Range(unique_contacts)
                  \/ \E k \in DOMAIN found_contacts : HasKey(c, found_contacts[k].key)
        /\ (OfferedContacts(offered) # << >> => unique_contacts # << >>)

\* ======================================================================
\* Two ContactFinder jobs in one working directory: both instances get
\* state_file = Path('contact_finder_state.json') (line 210 of
\* perplexity_contact_finder.py)
\* ======================================================================

\* the other job's query, a text that is not in this job's list
OtherQuery == NQueries + 1

\* a contact that only the other job found
OtherContact ==
    Candidate("Olga Moe", "Moe Motors", "olga@moe.com", <<"https://moe.com">>, 70)

\* save_state (lines 231-256) of the other job, after it processed its query
OtherJobSaves ==
    /\ fpc # "off"
    /\ state_file # Snapshot({OtherQuery}, <<OtherContact>>)
    /\ state_file' = Snapshot({OtherQuery}, <<OtherContact>>)
    /\ UNCHANGED <<queries, verify, processed_queries, self_results,
                   remaining_queries, qi, found, fpc, issued_run, crashed,
                   resumed, raised_queries, ckpt_k, last_merged, save_outcome>>
    /\ UNCHANGED nonFinVars

TwoJobsNext == FinNext \/ OtherJobSaves

SpecTwoJobs == FinInit /\ [][TwoJobsNext]_vars

\* C19: the processed-query set and the results of a job, also after it
\* resumed from the checkpoint, hold only what this job wrote: queries of
\* its own list and contacts it found itself.
C19_JobIsolation ==
    /\ processed_queries \subseteq Range(queries)
    /\ OtherContact \notin Range(self_results)

\* C21: iterative_deep_search never sends more queries to the client than
\* its max_iterations argument allows.
C21_StoppingPolicy == Cardinality(tracked_queries) <= max_iterations

\* the fields of a contact that a verification which did not succeed has to
\* leave alone: b is a after verification
KeptByFailedVerification(a, b) ==
    /\ b.name = a.name /\ b.company = a.company
    /\ b.primary_email = a.primary_email
    /\ b.alternate_emails = a.alternate_emails
    /\ b.confidence_score = a.confidence_score
    /\ ~PhoneValid(a.primary_phone) => b.primary_phone = a.primary_phone

\* C22: with no email verification service configured, and for a phone that
\* does not verify, every contact of the query is appended to the results
\* with its primary email, alternate emails, confidence and primary phone
\* as the client returned them.
C22_VerificationFrame ==
    [][(fpc = "handle" /\ fpc' \in {"save", "search", "done"})
        => \A k \in 1..(Len(self_results') - Len(self_results)) :
              KeptByFailedVerification(found[k],
                                       self_results'[Len(self_results) + k])]_vars

\* C23: a pause, resume or cancel request changes nothing of the job record
\* but its paused and cancelled flags; status, counters and results are as
\* the run loop left them.
C23_SignalsOnlyFlags ==
    [][(pause_job \/ resume_job \/ cancel_job)
        => /\ [job_status' EXCEPT !.paused = job_status.paused,
                                  !.cancelled = job_status.cancelled] = job_status
           /\ results' = results]_vars

\* C24: find_contacts sends a query to the client only if its text is not
\* in processed_queries at that moment, so no text is sent twice in a run.
C24_NoDuplicateQuery ==
    [][SearchQuery => /\ remaining_queries[qi] \notin processed_queries
                      /\ remaining_queries[qi] \notin Range(issued_run)]_vars

\* C25: within one search_contact a provider call is made only when no
\* earlier call of the search has returned a response: a received response
\* is never asked for again, whatever its text is.
C25_RetryOnlyOnFailure ==
    \A i \in DOMAIN calls : calls[i] # NoResponse => i = Len(calls)

\* C26: the list a call of iterative_deep_search starts from holds no query
\* that is in processed_queries, and no query text is handed to the client
\* twice by one strategy, over all stages and calls.
C26_NoQueryTwice ==
    /\ [](\A i, j \in DOMAIN sent : sent[i] = sent[j] => i = j)
    /\ [][(stage' = 1 /\ todo' # todo)
            => \A k \in DOMAIN todo' : todo'[k] \notin tracked_queries]_vars

\* C26 witness: the second call on a strategy has ended; it has sent a query
\* of the next title and met the regional query of the first call again
C26_Witness ==
    /\ again /\ epc = "done"
    /\ RegionalText \in Range(sent)
    /\ Len(sent) > Len(Patterns) + Len(RegionalQueries)

\* C27: the status of a job is 'paused' only while its run loop is in the
\* pause wait, and it is 'running' while a provider call is in flight.
C27_StatusMatchesActivity ==
    /\ job_status.status = "paused" => wpc \in {"chk_pause", "set_paused"}
    /\ wpc = "call" => job_status.status = "running"

\* The web job with a run thread that is scheduled as long as it can take a
\* step (the sleep of the pause wait ends, a call returns); the operator's
\* requests are under no obligation.
SpecWebFair == WebInit /\ [][WebNext]_vars /\ WF_vars(run_enrichment)

\* the loop stands at a company boundary, before the cancel flag is read
AtBoundary == wpc \in {"chk_pause", "set_paused", "chk_cancel"}

\* C28: once the cancel flag is set while the loop stands at a company
\* boundary, paused or not, the loop goes to no provider call from there,
\* and the job gets status 'cancelled' without a further request.
C28_CancelWhilePaused ==
    /\ [][(job_status.cancelled /\ AtBoundary)
            => (AtBoundary' \/ wpc' = "set_cancelled")]_vars
    /\ (job_status.cancelled /\ AtBoundary) ~> (job_status.status = "cancelled")

\* C29: the handling of a query's contacts adds to the results only when it
\* also records the query in processed_queries; a query whose handling
\* raised leaves the results as they were.
C29_ResultsFromProcessed ==
    [][(fpc = "handle" /\ self_results' # self_results)
          => remaining_queries[qi] \in processed_queries']_vars

-----------------------------------------------------------------------------
\* Contact enrichment (contact_enricher.py): enrich_contacts with its
\* periodic checkpoint, a stop of the process, and a later run on the same
\* contact list.

nonEnrVars == <<webVars, cliVars, finVars, smartVars, enhVars>>

\* number of contacts in the list
NContacts == 6

\* line 226: a checkpoint after every fifth contact
SaveEvery == 5

\* the contact lists: every contact lacks an email or a phone, or the
\* second has both (lines 238-243: no search is made for it)
ContactLists ==
    { [i \in 1..NContacts |-> TRUE],
      [i \in 1..NContacts |-> i # 2] }

\* an EnrichmentResult (lines 41-49) as _enrich_single_contact builds it
EnrichmentResult(row, status) == [row |-> row, status |-> status, form |-> "object"]

\* a result as json.load gives it back: a dict (lines 393-403 wrote one)
AsDict(r) == [r EXCEPT !.form = "dict"]

AsDicts(rs) == [i \in DOMAIN rs |-> AsDict(rs[i])]

\* _save_state builds the state with r.original, r.status, ... (lines
\* 394-403); a dict has no such attributes
SaveRaises(rs) == \E i \in DOMAIN rs : rs[i].form = "dict"

EnrInit ==
    /\ WebIdle
    /\ CliIdle
    /\ FinIdle
    /\ SmartIdle
    /\ EnhIdle
    /\ en_contacts \in ContactLists
    /\ en_resume \in BOOLEAN
    /\ en_results = << >>
    /\ en_state_file = [kind |-> "absent", results |-> << >>]
    /\ start_idx = 0 /\ idx = 0 /\ en_pc = "start" /\ en_sent = << >>
    /\ en_ret = << >> /\ en_crashed = FALSE

\* lines 189-195; _load_state (lines 408-411) lets the error of json.load
\* on a file that is not complete go up
EnrichStart ==
    /\ en_pc = "start"
    /\ IF en_resume /\ en_state_file.kind # "absent"
         THEN IF en_state_file.kind = "partial"
                THEN /\ en_pc' = "raised"
                     /\ UNCHANGED <<en_results, start_idx, idx>>
                ELSE /\ en_results' = en_state_file.results
                     /\ start_idx' = Len(en_state_file.results)
                     /\ idx' = Len(en_state_file.results)
                     /\ en_pc' = "loop"
         ELSE /\ start_idx' = 0 /\ idx' = 0
              /\ en_pc' = "loop"
              /\ UNCHANGED en_results
    /\ UNCHANGED <<en_contacts, en_resume, en_state_file, en_sent, en_ret,
                   en_crashed>>
    /\ UNCHANGED nonEnrVars

\* lines 211-227 for one contact: _enrich_single_contact (lines 234-286)
\* returns a result whatever the client does; the result is appended
EnrichSingle ==
    /\ en_pc = "loop"
    /\ idx < Len(en_contacts)
    /\ IF en_contacts[idx + 1]
         THEN /\ \E st \in {"enriched", "failed"} :
                    en_results' = Append(en_results, EnrichmentResult(idx + 1, st))
              /\ en_sent' = Append(en_sent, idx + 1)
         ELSE /\ en_results' = Append(en_results, EnrichmentResult(idx + 1, "skipped"))
              /\ UNCHANGED en_sent
    /\ idx' = idx + 1
    /\ en_pc' = IF (idx + 1) % SaveEvery = 0 THEN "save" ELSE "loop"
    /\ UNCHANGED <<en_contacts, en_resume, en_state_file, start_idx, en_ret,
                   en_crashed>>
    /\ UNCHANGED nonEnrVars

\* the loop of line 211 is through
LoopEnd ==
    /\ en_pc = "loop"
    /\ idx >= Len(en_contacts)
    /\ en_pc' = "final"
    /\ UNCHANGED <<en_contacts, en_resume, en_results, en_state_file, start_idx,
                   idx, en_sent, en_ret, en_crashed>>
    /\ UNCHANGED nonEnrVars

\* lines 227 and 230, _save_state (lines 390-406): the state is built, then
\* the file is opened for writing and the dump is made
EnrichSave ==
    /\ en_pc \in {"save", "final"}
    /\ IF SaveRaises(en_results)
         THEN /\ en_pc' = "raised"
              /\ UNCHANGED en_state_file
         ELSE /\ en_state_file' = [kind |-> "ok", results |-> AsDicts(en_results)]
              /\ en_pc' = IF en_pc = "save" THEN "loop" ELSE "summary"
    /\ UNCHANGED <<en_contacts, en_resume, en_results, start_idx, idx, en_sent,
                   en_ret, en_crashed>>
    /\ UNCHANGED nonEnrVars

\* lines 233-235: _print_summary (lines 413-429) reads r.status of every
\* result, then the list is returned
EnrichReturn ==
    /\ en_pc = "summary"
    /\ IF SaveRaises(en_results)
         THEN en_pc' = "raised" /\ UNCHANGED en_ret
         ELSE en_pc' = "returned" /\ en_ret' = en_results
    /\ UNCHANGED <<en_contacts, en_resume, en_results, en_state_file, start_idx,
                   idx, en_sent, en_crashed>>
    /\ UNCHANGED nonEnrVars

\* the process is stopped; in a save, after open(..., 'w') has emptied the
\* file (line 405), the dump may be left undone
EnrichCrash ==
    /\ en_pc \in {"loop", "save", "final", "summary"}
    /\ en_pc' = "stopped"
    /\ en_crashed' = TRUE
    /\ \/ UNCHANGED en_state_file
       \/ /\ en_pc \in {"save", "final"}
          /\ ~SaveRaises(en_results)
          /\ en_state_file' = [kind |-> "partial", results |-> << >>]
    /\ UNCHANGED <<en_contacts, en_resume, en_results, start_idx, idx, en_sent,
                   en_ret>>
    /\ UNCHANGED nonEnrVars

\* a new process: a new ContactEnricher (lines 175-183) and a call of
\* enrich_contacts with the same list
EnrichRestart ==
    /\ en_pc = "stopped"
    /\ \E r \in BOOLEAN : en_resume' = r
    /\ en_results' = << >> /\ start_idx' = 0 /\ idx' = 0
    /\ en_sent' = << >> /\ en_ret' = << >>
    /\ en_pc' = "start"
    /\ UNCHANGED <<en_contacts, en_state_file, en_crashed>>
    /\ UNCHANGED nonEnrVars

enrich_contacts ==
    \/ EnrichStart \/ EnrichSingle \/ LoopEnd \/ EnrichSave \/ EnrichReturn

EnrNext == enrich_contacts \/ EnrichCrash \/ EnrichRestart

SpecEnricher == EnrInit /\ [][EnrNext]_vars

\* C30: a run resumed after a stop starts at the index that equals the
\* number of results in the checkpoint, sends no row of the checkpoint to
\* the provider, and ends by returning one result for each contact of the
\* list, in the order of the list.
C30_EnricherResume ==
    /\ [][(en_resume /\ en_crashed /\ en_pc = "start" /\ en_pc' = "loop")
            => start_idx' = Len(en_state_file.results)]_vars
    /\ []((en_resume /\ en_crashed) =>
            /\ \A i \in DOMAIN en_sent : en_sent[i] > start_idx
            /\ en_pc \in {"returned", "raised"} =>
                  /\ en_pc = "returned"
                  /\ [i \in DOMAIN en_ret |-> en_ret[i].row]
                        = [i \in 1..NContacts |-> i])

====
